---- MODULE Spec2Model ----
(***************************************************************************)
(* A model of the Aurora Genie chat application: the Gemini client wrapper *)
(* (gemini_client.py), the chat handler (chat_handler.py), the document    *)
(* extractors (doc_utils.py), the report generator (eda_utils.py) and the  *)
(* Streamlit sections (app.py, data_analysis.py, writing_studio.py).       *)
(*                                                                         *)
(* Python values are tagged records: None, Str(s) with s a sequence of     *)
(* one-character strings, List(q) with q a sequence of values, and objects *)
(* and dicts as records that carry their attributes or keys.  An exception *)
(* that propagates out of an expression is the value Raise.                *)
(***************************************************************************)
EXTENDS Integers, Sequences, FiniteSets, TLC

VARIABLES
  fn, args, ret,  \* one call of a library function: its name, arguments, result
  files,          \* the report files that exist in the working directory
  entry,          \* the program that runs: the library, chat_handler, the app, the studio
  nruns,          \* the script runs (or ask_gemini calls) made so far
  last,           \* what the last run did: a record of the interaction
  ask_history,    \* the list a caller passes to ask_gemini as chat_history
  heap,           \* the transcript lists of the session, by reference
  qa_messages, chat_history, current_chat_index,
  doc_messages, uploaded_doc_text, uploaded_doc_name, doc_chat_history,
  current_doc_chat_index, doc_uploader_key,
  doc_file,       \* the file held by the document uploader widget, or None
  df, uploaded_file_name, data_analysis_messages,
  data_file,      \* the file held by the data uploader widget, or None
  studio_messages, input_text

callVars == <<fn, args, ret>>
qaVars == <<qa_messages, chat_history, current_chat_index>>
docVars == <<doc_messages, uploaded_doc_text, uploaded_doc_name, doc_chat_history,
             current_doc_chat_index, doc_uploader_key, doc_file>>
dataVars == <<df, uploaded_file_name, data_analysis_messages, data_file>>
studioVars == <<studio_messages, input_text>>
sessionVars == <<entry, nruns, last, ask_history, heap, qaVars, docVars, dataVars,
                 studioVars>>
vars == <<callVars, files, sessionVars>>

---------------------------------------------------------------------------
(* Python values *)

None == [t |-> "none"]
Str(s) == [t |-> "str", v |-> s]
List(q) == [t |-> "list", v |-> q]
Raise == [t |-> "raise"]

IsRaise(r) == r.t = "raise"

\* The truth value of x in `if x:` for a str or None.
Truthy(x) == x.t = "str" /\ Len(x.v) > 0

\* dict.get(key): the value, or None when the key is missing.
Get(d, key) == IF key \in DOMAIN d THEN d[key] ELSE None

\* getattr(obj, name, default); getattr(None, name, default) is default.
GetAttr(obj, name, default) == IF name \in DOMAIN obj THEN obj[name] ELSE default

\* {"role": role, "content": content}, a turn of a transcript.
Turn(role, content) == [t |-> "dict", role |-> Str(role), content |-> Str(content)]

\* All sequences over S of length at most n.
SeqUpTo(S, n) == UNION {[1..k -> S] : k \in 0..n}

IsPrefix(p, q) == Len(p) <= Len(q) /\ SubSeq(q, 1, Len(p)) = p

RECURSIVE Flatten(_)
Flatten(qq) == IF qq = <<>> THEN <<>> ELSE Head(qq) \o Flatten(Tail(qq))

---------------------------------------------------------------------------
(* gemini_client.py *)

\* types.Content(role=role, parts=[types.Part(text=text)])
Content(role, text) == [role |-> role, parts |-> <<[text |-> text]>>]

GeminiRoleSwapped(role) == IF role = Str("assistant") THEN "model" ELSE "user"

GeminiRole(role) == IF role = Str("user") THEN "user" ELSE "model"

KeepsNotNone(content) == content # None

KeepsTurn(content) == Truthy(content)

RECURSIVE convert_history_for_gemini(_)
convert_history_for_gemini(st_history) ==
  IF st_history = <<>> THEN <<>>
  ELSE LET msg == Head(st_history)
           role == Get(msg, "role")
           content == Get(msg, "content")
           rest == convert_history_for_gemini(Tail(st_history))
       IN IF KeepsTurn(content)
          THEN <<Content(GeminiRole(role), content.v)>> \o rest
          ELSE rest

AddPartSeparated(full_response, text) == full_response \o <<" ">> \o text

AddPartText(full_response, text) == full_response \o text

\* for part in parts: if part.text: full_response += part.text
RECURSIVE PartsLoop(_, _)
PartsLoop(parts, full_response) ==
  IF parts = <<>> THEN Str(full_response)
  ELSE LET part == Head(parts)
       IN PartsLoop(Tail(parts),
                    IF Truthy(part.text)
                    THEN AddPartText(full_response, part.text.v)
                    ELSE full_response)

\* for candidate in candidates: for part in getattr(candidate.content, "parts", [])
RECURSIVE CandidatesLoop(_, _)
CandidatesLoop(candidates, full_response) ==
  IF candidates = <<>> THEN Str(full_response)
  ELSE LET candidate == Head(candidates)
           parts == GetAttr(candidate.content, "parts", List(<<>>))
       IN IF parts.t # "list" THEN Raise   \* iterating None: TypeError
          ELSE LET r == PartsLoop(parts.v, full_response)
               IN IF IsRaise(r) THEN Raise
                  ELSE CandidatesLoop(Tail(candidates), r.v)

\* for event in response_stream: for candidate in getattr(event, "candidates", [])
\* An element Raise of the stream is the iterator raising at that point.
RECURSIVE EventsLoop(_, _)
EventsLoop(response_stream, full_response) ==
  IF response_stream = <<>> THEN Str(full_response)
  ELSE LET event == Head(response_stream)
       IN IF IsRaise(event) THEN Raise
          ELSE LET candidates == GetAttr(event, "candidates", List(<<>>))
               IN IF candidates.t # "list" THEN Raise   \* iterating None
                  ELSE LET r == CandidatesLoop(candidates.v, full_response)
                       IN IF IsRaise(r) THEN Raise
                          ELSE EventsLoop(Tail(response_stream), r.v)

\* client.models.generate_content_stream(...) and the loop over its stream:
\* api.request = "raise" is the call raising, api.stream the events it yields.
GenerateAndAccumulate(api) ==
  IF api.request = "raise" THEN Raise ELSE EventsLoop(api.stream, <<>>)

NoExcept(body) == body

\* try: ... return full_response / except Exception: return ""
TryExcept(body) == IF IsRaise(body) THEN Str(<<>>) ELSE body

\* The list passed as history when the call returns: the function appends
\* the prompt to its own list contents, never to history.
HistoryAfter(history, user_prompt) == history

RequestContentsHistoryOnly(history, user_prompt) ==
  convert_history_for_gemini(history)

\* contents = convert_history_for_gemini(history)
\* contents.append(types.Content(role="user", parts=[types.Part(text=user_prompt)]))
RequestContents(history, user_prompt) ==
  Append(convert_history_for_gemini(history), Content("user", user_prompt))

ClientNeverMissing(client) == FALSE

\* if client is None:
ClientMissing(client) == client = None

\* The value returned (ret: a Str, or Raise if an exception escaped), the
\* requests sent to the model, and the history list as the call leaves it.
stream_gemini_response(client, user_prompt, history, api) ==
  IF ClientMissing(client)
  THEN [ret |-> Str(<<>>), requests |-> <<>>, history |-> history]
  ELSE LET contents == RequestContents(history, user_prompt)
       IN [ret |-> TryExcept(GenerateAndAccumulate(api)),
           requests |-> <<contents>>,
           history |-> HistoryAfter(history, user_prompt)]

---------------------------------------------------------------------------
(* doc_utils.py *)

\* for page in pdf.pages: text += page.extract_text() or ""
\* A page is what its extract_text() gives: a Str, None, or Raise.
RECURSIVE PagesLoop(_, _)
PagesLoop(pages, text) ==
  IF pages = <<>> THEN Str(text)
  ELSE LET extracted == Head(pages)
       IN IF IsRaise(extracted) THEN Raise
          ELSE PagesLoop(Tail(pages),
                         text \o (IF Truthy(extracted) THEN extracted.v ELSE <<>>))

PdfNoExcept(body) == body

PdfTryExcept(body) == IF IsRaise(body) THEN Str(<<>>) ELSE body

\* file.reader = "raise": PdfReader(file) raises on the file.
extract_text_from_pdf(file) ==
  PdfTryExcept(IF file.reader = "raise" THEN Raise ELSE PagesLoop(file.pages, <<>>))

\* "\n".join(texts)
RECURSIVE JoinLines(_)
JoinLines(texts) ==
  IF texts = <<>> THEN <<>>
  ELSE IF Len(texts) = 1 THEN Head(texts)
  ELSE Head(texts) \o <<"\n">> \o JoinLines(Tail(texts))

DocxTryExcept(body) == IF IsRaise(body) THEN Str(<<>>) ELSE body

\* file.reader = "raise": Document(file) raises on the file.
extract_text_from_docx(file) ==
  DocxTryExcept(IF file.reader = "raise" THEN Raise
                ELSE Str(JoinLines(file.paragraphs)))

---------------------------------------------------------------------------
(* eda_utils.py: generate_eda_report *)

\* os.path.basename(filename): what follows the last "/".
RECURSIVE Basename(_)
Basename(path) ==
  IF \E i \in 1..Len(path) : path[i] = "/"
  THEN Basename(Tail(path))
  ELSE path

\* name.split('.')[0]: what precedes the first ".".
RECURSIVE SplitDotFirst(_)
SplitDotFirst(name) ==
  IF name = <<>> \/ Head(name) = "." THEN <<>>
  ELSE <<Head(name)>> \o SplitDotFirst(Tail(name))

\* f"report_{os.path.basename(filename).split('.')[0]}.html"
ReportPath(filename) ==
  <<"r", "e", "p", "o", "r", "t", "_">> \o SplitDotFirst(Basename(filename))
    \o <<".", "h", "t", "m", "l">>

\* The steps of the try block are ProfileReport(...), profile.to_file, open,
\* st.download_button, st.success and os.remove, in this order; a fault names
\* the step that raises ("none": no step does).  profile.to_file may raise
\* before or after it has written the file.
EdaFaults == {"none", "ProfileReport", "to_file_unwritten", "to_file_written",
              "open", "download_button", "success", "remove"}

\* Whether the run got as far as writing the report file.
EdaWritten(clicked, fault) ==
  clicked /\ fault \notin {"ProfileReport", "to_file_unwritten"}

\* Whether the run got as far as os.remove(report_path) and it succeeded.
EdaRemoved(clicked, fault) == clicked /\ fault = "none"

\* The files on disk when generate_eda_report(df, filename) returns.
generate_eda_report(disk, filename, clicked, fault) ==
  LET report_path == ReportPath(filename)
      written == IF EdaWritten(clicked, fault) THEN disk \cup {report_path} ELSE disk
  IN IF EdaRemoved(clicked, fault) THEN written \ {report_path} ELSE written

---------------------------------------------------------------------------
(* Text: str methods on sequences of characters.  A fixed message of the   *)
(* program is written as a sequence of one symbol that holds it.           *)

Whitespace == {" ", "\n", "\t"}

RECURSIVE LStrip(_)
LStrip(s) == IF s # <<>> /\ Head(s) \in Whitespace THEN LStrip(Tail(s)) ELSE s

RECURSIVE RStrip(_)
RStrip(s) ==
  IF s # <<>> /\ s[Len(s)] \in Whitespace THEN RStrip(SubSeq(s, 1, Len(s) - 1)) ELSE s

\* s.strip()
Strip(s) == RStrip(LStrip(s))

UpperLetters == <<"A", "B", "C", "D", "E", "F", "G", "H", "I", "J", "K", "L", "M", "N", "O", "P", "Q", "R", "S", "T", "U", "V", "W", "X", "Y", "Z">>
LowerLetters == <<"a", "b", "c", "d", "e", "f", "g", "h", "i", "j", "k", "l", "m", "n", "o", "p", "q", "r", "s", "t", "u", "v", "w", "x", "y", "z">>

LowerChar(c) ==
  IF \E i \in 1..Len(UpperLetters) : UpperLetters[i] = c
  THEN LowerLetters[CHOOSE i \in 1..Len(UpperLetters) : UpperLetters[i] = c]
  ELSE c

\* s.lower()
Lower(s) == [i \in 1..Len(s) |-> LowerChar(s[i])]

\* needle in hay
Contains(needle, hay) ==
  \E i \in 0..(Len(hay) - Len(needle)) : SubSeq(hay, i + 1, i + Len(needle)) = needle

\* s[:n]
Take(s, n) == SubSeq(s, 1, IF Len(s) < n THEN Len(s) ELSE n)

---------------------------------------------------------------------------
(* chat_handler.py *)

AskPrependUser(history, prompt) == <<Turn("user", prompt)>> \o history

\* chat_history.append({"role": "user", "content": prompt})
AskAppendUser(history, prompt) == Append(history, Turn("user", prompt))

\* if response: chat_history.append({"role": "assistant", "content": response})
AskAppendResponse(history, response) ==
  IF Truthy(response)
  THEN Append(history, Turn("assistant", response.v))
  ELSE history

\* The list chat_history when ask_gemini returns, the response returned and
\* the requests sent.
ask_gemini(client, prompt, history, api) ==
  LET r == stream_gemini_response(client, prompt,
                                  AskAppendUser(history, prompt), api)
  IN [messages |-> AskAppendResponse(r.history, r.ret),
      response |-> r.ret,
      requests |-> r.requests,
      calls |-> 1]

---------------------------------------------------------------------------
(* app.py: display_qa_chat *)

Greetings == {<<"h", "i">>, <<"h", "e", "l", "l", "o">>, <<"h", "e", "y">>}
QaGreetingResponse == <<"Hello there! How can I help you today?">>

IsGreetingUnstripped(prompt) == Lower(prompt) \in Greetings

\* prompt.strip().lower() in ["hi", "hello", "hey"]
IsGreeting(prompt) == Lower(Strip(prompt)) \in Greetings

\* messages.append({"role": "user", "content": prompt})
QaAppendUser(messages, prompt) == Append(messages, Turn("user", prompt))

\* if response: messages.append({"role": "assistant", "content": response})
QaAppendResponse(messages, response) ==
  IF Truthy(response)
  THEN Append(messages, Turn("assistant", response.v))
  ELSE messages

\* The list messages when display_qa_chat returns, for the value prompt
\* that st.chat_input gave (None, or the text submitted), with the response,
\* the requests sent and the number of calls of stream_gemini_response.
display_qa_chat(messages, prompt, client, api) ==
  IF ~Truthy(prompt)
  THEN [messages |-> messages, response |-> None, requests |-> <<>>, calls |-> 0]
  ELSE IF IsGreeting(prompt.v)
  THEN [messages |-> Append(QaAppendUser(messages, prompt.v),
                            Turn("assistant", QaGreetingResponse)),
        response |-> Str(QaGreetingResponse),
        requests |-> <<>>,
        calls |-> 0]
  ELSE LET r == stream_gemini_response(client, prompt.v,
                                       QaAppendUser(messages, prompt.v), api)
       IN [messages |-> QaAppendResponse(r.history, r.ret),
           response |-> r.ret,
           requests |-> r.requests,
           calls |-> 1]

---------------------------------------------------------------------------
(* app.py: display_doc_chat *)

PdfMime == "application/pdf"
DocxMime == "application/vnd.openxmlformats-officedocument.wordprocessingml.document"

DocInstruction == <<"You are an AI assistant specialized in answering questions based on the provided document. [...] Document Content:\n">>
DocQuestion == <<"\n\nQuestion: ">>

\* f"Document '{doc_file.name}' uploaded. Ask me anything about it!"
DocUploadedMessage(name) ==
  <<"Document '">> \o name \o <<"' uploaded. Ask me anything about it!">>

\* The upload branch is taken for a file whose name is not uploaded_doc_name.
DocIsNewUpload(file, name) == file # None /\ Str(file.name) # name

\* uploaded_doc_text after the upload branch: the extracted text for a PDF
\* or DOCX content type, and the text held before for any other type.
DocExtract(file, text) ==
  IF file.type = PdfMime THEN extract_text_from_pdf(file.file)
  ELSE IF file.type = DocxMime THEN extract_text_from_docx(file.file)
  ELSE text

\* st.session_state["doc_messages"].append({"role": "user", ...})
DocAppendUser(messages, user_prompt) == Append(messages, Turn("user", user_prompt))

DocAppendAlways(messages, response) ==
  Append(messages, Turn("assistant", response.v))

\* if response: st.session_state["doc_messages"].append(...)
DocAppendResponse(messages, response) ==
  IF Truthy(response)
  THEN Append(messages, Turn("assistant", response.v))
  ELSE messages

\* full_prompt = system_instruction + doc_context + "\n\nQuestion: " + user_prompt
DocFullPrompt(doc_context, user_prompt) ==
  DocInstruction \o doc_context \o DocQuestion \o user_prompt

\* The chat of display_doc_chat on the list messages, for the value
\* user_prompt that st.chat_input gave.
DocChat(messages, doc_context, user_prompt, client, api) ==
  IF ~Truthy(user_prompt)
  THEN [messages |-> messages, response |-> None, requests |-> <<>>, calls |-> 0]
  ELSE LET r == stream_gemini_response(client,
                                       DocFullPrompt(doc_context, user_prompt.v),
                                       DocAppendUser(messages, user_prompt.v), api)
       IN [messages |-> DocAppendResponse(r.history, r.ret),
           response |-> r.ret,
           requests |-> r.requests,
           calls |-> 1]

---------------------------------------------------------------------------
(* data_analysis.py *)

\* A key that is not in st.session_state.
Absent == [t |-> "absent"]

DataFrame(source, kind) == [t |-> "df", source |-> source, kind |-> kind]

\* uploaded_file.name.split('.')[-1]: what follows the last ".".
RECURSIVE LastExtension(_)
LastExtension(name) ==
  IF \E i \in 1..Len(name) : name[i] = "."
  THEN LastExtension(Tail(name))
  ELSE name

\* load_data(uploaded_file): the DataFrame read, or Raise.  file.read_csv and
\* file.read_excel tell whether pandas reads the file, file.decode whether
\* its bytes decode; an extension that is none of the three leaves df unbound.
load_data(uploaded_file) ==
  LET file_extension == LastExtension(uploaded_file.name)
  IN IF file_extension = <<"c", "s", "v">>
     THEN (IF uploaded_file.read_csv = "ok"
           THEN DataFrame(uploaded_file.name, "table") ELSE Raise)
     ELSE IF file_extension = <<"x", "l", "s", "x">>
     THEN (IF uploaded_file.read_excel = "ok"
           THEN DataFrame(uploaded_file.name, "table") ELSE Raise)
     ELSE IF file_extension = <<"t", "x", "t">>
     THEN (IF uploaded_file.read_csv = "ok"
           THEN DataFrame(uploaded_file.name, "table")
           ELSE IF uploaded_file.decode = "ok"
           THEN DataFrame(uploaded_file.name, "content") ELSE Raise)
     ELSE Raise

\* info_string and capability_list of a successful load.
DataLoadedMessages(name) ==
  << Turn("assistant", <<"Successfully loaded ">> \o name \o <<". [shape]">>),
     Turn("assistant", <<"**Current Capabilities:** [...]">>) >>

\* The keys of query_mapping in insertion order.
QueryMapping ==
  << <<"h", "i", "g", "h", "e", "s", "t", " ", "s", "a", "l", "e">>,
     <<"t", "o", "t", "a", "l", " ", "s", "u", "m", " ", "o", "f", " ", "s", "a", "l", "e">>,
     <<"t", "o", "t", "a", "l", " ", "r", "e", "t", "u", "r", "n">>,
     <<"h", "i", "g", "h", "e", "s", "t", " ", "p", "r", "o", "f", "i", "t">>,
     <<"t", "o", "p", " ", "1", "0", " ", "c", "i", "t", "y", " ", "w", "i", "t", "h", " ", "h", "i", "g", "h", "e", "s", "t", " ", "s", "a", "l", "e", "s">>,
     <<"t", "o", "p", " ", "1", "0", " ", "c", "u", "s", "t", "o", "m", "e", "r", " ", "b", "u", "y", "i", "n", "g", " ", "f", "r", "e", "q", "u", "e", "n", "t", "l", "y">>,
     <<"p", "a", "y", "m", "e", "n", "t", " ", "m", "o", "d", "e">> >>
LastQueryMatch(prompt_lower) ==
  IF \E i \in 1..Len(QueryMapping) : Contains(QueryMapping[i], prompt_lower)
  THEN CHOOSE i \in 1..Len(QueryMapping) :
         /\ Contains(QueryMapping[i], prompt_lower)
         /\ \A j \in (i + 1)..Len(QueryMapping) : ~Contains(QueryMapping[j], prompt_lower)
  ELSE 0

\* The first key of query_mapping contained in prompt_lower, or 0.
FirstQueryMatch(prompt_lower) ==
  IF \E i \in 1..Len(QueryMapping) : Contains(QueryMapping[i], prompt_lower)
  THEN CHOOSE i \in 1..Len(QueryMapping) :
         /\ Contains(QueryMapping[i], prompt_lower)
         /\ \A j \in 1..(i - 1) : ~Contains(QueryMapping[j], prompt_lower)
  ELSE 0

\* The prompt sent for a canned query whose evaluation gave result.
DataResultPrompt(result) ==
  <<"Given the following calculation result:\n">> \o result
    \o <<"\n\nPlease summarize this information for the user [...]">>

\* The prompt of the general approach: the dataset and the question.
DataContextPrompt(frame, prompt) ==
  <<"You are an AI data analyst. [...] Dataset Context:\n">>
    \o <<"[to_markdown of ">> \o frame.source \o <<"]">>
    \o <<"\nUser Question: ">> \o prompt

DataLoadFailedKeeps(frame) == frame

\* except Exception: st.session_state.pop("df", None), for the value frame
\* that "df" held.
DataLoadFailed(frame) == Absent

DataErrorMessage ==
  <<"An error occurred while trying to fulfill your request: [e]. Please check your dataset columns.">>

\* The loop over query_mapping: the response it leaves, the requests it
\* sent and the calls of stream_gemini_response it made.  evaluation is the
\* set of the keys of query_mapping, by position, whose func(df) raises on
\* the dataset.
DataQueryLoop(messages, prompt, evaluation, client, api) ==
  LET match == FirstQueryMatch(Strip(Lower(prompt)))
  IN IF match = 0
     THEN [response |-> None, requests |-> <<>>, calls |-> 0]
     ELSE IF match \in evaluation
     THEN [response |-> Str(DataErrorMessage), requests |-> <<>>, calls |-> 0]
     ELSE LET r == stream_gemini_response(
                     client, DataResultPrompt(<<"[result of query]">>), messages, api)
          IN [response |-> r.ret, requests |-> r.requests, calls |-> 1]

\* if not response: response = stream_gemini_response(client, full_prompt, ...)
DataFallback(first, messages, frame, prompt, client, api) ==
  IF ~Truthy(first.response)
  THEN LET r == stream_gemini_response(
                  client, DataContextPrompt(frame, prompt), messages, api)
       IN [response |-> r.ret, requests |-> first.requests \o r.requests,
           calls |-> first.calls + 1]
  ELSE first

\* if response: st.session_state["data_analysis_messages"].append(...)
DataAppendResponse(messages, response) ==
  IF Truthy(response)
  THEN Append(messages, Turn("assistant", response.v))
  ELSE messages

\* The chat of display_data_analysis on the list messages, for the value
\* prompt that st.chat_input gave; api1 and api2 are the behaviour of the
\* model on the first and on the second request.
DataChat(messages, frame, prompt, evaluation, client, api1, api2) ==
  IF ~Truthy(prompt)
  THEN [messages |-> messages, response |-> None, requests |-> <<>>, calls |-> 0]
  ELSE LET m1 == Append(messages, Turn("user", prompt.v))
           first == DataQueryLoop(m1, prompt.v, evaluation, client, api1)
           final == DataFallback(first, m1, frame, prompt.v, client,
                                 IF first.requests = <<>> THEN api1 ELSE api2)
       IN [messages |-> DataAppendResponse(m1, final.response),
           response |-> final.response,
           requests |-> final.requests,
           calls |-> final.calls]

---------------------------------------------------------------------------
(* writing_studio.py *)

StudioInputShown == 100

StudioGreeting ==
  <<"Hello! Provide your draft or a prompt, and let's define the style you need.">>

\* f"ACTION: {action}\nTONE: {tone}\nAUDIENCE: {audience}\nINPUT: {input_text[:100]}..."
StudioUserPrompt(text) ==
  <<"ACTION: [action]\nTONE: [tone]\nAUDIENCE: [audience]\nINPUT: ">>
    \o Take(text, StudioInputShown) \o <<".", ".", ".">>

\* simulated_response
StudioResponse(text) ==
  <<"**AI Result ([action] | [tone] Tone):** [...] **Your Request:** [...]: \"">>
    \o Strip(text) \o <<"\"">>

\* The list studio_messages after the Run button handler, for the text of
\* the text area and whether the button was clicked.
display_writing_studio(messages, text, clicked) ==
  IF ~clicked \/ Strip(text) = <<>>
  THEN messages
  ELSE messages \o << Turn("user", StudioUserPrompt(text)),
                      Turn("assistant", StudioResponse(text)) >>

---------------------------------------------------------------------------
(* Bounds and input sets of the library-function specifications *)

MaxHistory == 3
MaxEvents == 3
MaxPages == 3

\* Turns as dicts: the role key missing, "user", "assistant" or another
\* string; the content key missing, None, "" or a text.
ConvRoles == {Str("user"), Str("assistant"), Str("system")}
ConvContents == {None, Str(<<>>), Str(<<"a">>), Str(<<"b">>)}
ConvMsgs ==
  {[t |-> "dict", role |-> r, content |-> c] : r \in ConvRoles, c \in ConvContents}
    \cup {[t |-> "dict", role |-> r] : r \in ConvRoles}
    \cup {[t |-> "dict", content |-> c] : c \in ConvContents}
    \cup {[t |-> "dict"]}

Part(text) == [t |-> "obj", text |-> text]
Candidate(parts) == [t |-> "obj", content |-> [t |-> "obj", parts |-> parts]]
Event(candidates) == [t |-> "obj", candidates |-> candidates]

\* The events a response stream is made of: text fragments spread over
\* parts, candidates and events, parts without text, and the shapes on
\* which the loop raises.
StreamEvents ==
  { Event(List(<<Candidate(List(<<Part(Str(<<"a">>))>>))>>)),
    Event(List(<<Candidate(List(<<Part(None), Part(Str(<<"b">>))>>))>>)),
    Event(List(<<Candidate(List(<<Part(Str(<<"b">>)), Part(Str(<<"a">>))>>))>>)),
    Event(List(<<Candidate(List(<<Part(Str(<<"a">>)), Part(Str(<<>>))>>)),
                 Candidate(List(<<Part(Str(<<"b">>))>>))>>)),
    Event(List(<<[t |-> "obj", content |-> None]>>)),
    Event(List(<<[t |-> "obj", content |-> [t |-> "obj"]]>>)),
    Event(List(<<Candidate(List(<<Part(Str(<<"a">>))>>)), Candidate(None)>>)),
    Event(None),
    [t |-> "obj"],
    Raise }

StreamApis ==
  {[request |-> "raise"]}
    \cup {[request |-> "ok", stream |-> s] : s \in SeqUpTo(StreamEvents, MaxEvents)}

StreamHistories ==
  { <<>>,
    <<Turn("assistant", <<"h">>), Turn("user", <<"q">>)>> }

PageResults == {Raise, None, Str(<<>>), Str(<<"a">>), Str(<<"b">>)}
PdfFiles ==
  {[reader |-> "raise"]}
    \cup {[reader |-> "ok", pages |-> p] : p \in SeqUpTo(PageResults, MaxPages)}
DocxFiles ==
  {[reader |-> "raise"]}
    \cup {[reader |-> "ok", paragraphs |-> p] :
             p \in SeqUpTo({<<>>, <<"a">>, <<"b">>}, MaxPages)}

EdaFilenames ==
  { <<"d", ".", "c", "s", "v">>, <<"d", ".", "x", "l", "s", "x">>,
    <<"e", ".", "v", "2", ".", "c", "s", "v">>, <<"u", "/", "e", ".", "t", "x", "t">> }

---------------------------------------------------------------------------
(* The session state: app.py main, st.session_state.setdefault(...) *)

QaGreeting == <<"Hello! I can answer your questions">>
DocGreeting == <<"I can answer questions based on uploaded documents">>

NoInteraction ==
  [op |-> "none", prompt |-> None, before |-> <<>>, after |-> <<>>,
   response |-> None, requests |-> <<>>, calls |-> 0, raised |-> FALSE]

InitSession ==
  /\ nruns = 0
  /\ last = NoInteraction
  /\ ask_history = <<>>
  /\ heap = << <<Turn("assistant", QaGreeting)>>, <<Turn("assistant", DocGreeting)>> >>
  /\ qa_messages = 1
  /\ doc_messages = 2
  /\ uploaded_doc_text = Str(<<>>)
  /\ uploaded_doc_name = None
  /\ chat_history = <<>>
  /\ current_chat_index = -1
  /\ doc_chat_history = <<>>
  /\ current_doc_chat_index = -1
  /\ doc_uploader_key = 0
  /\ doc_file = None
  /\ df = None
  /\ uploaded_file_name = None
  /\ data_analysis_messages = <<>>
  /\ data_file = None
  /\ studio_messages = Absent
  /\ input_text = Absent

\* The library-function specifications run no session.
SessionIdle == entry = "library" /\ InitSession

---------------------------------------------------------------------------
(* app.py: save_chat and the sidebar callbacks.  s is st.session_state as a *)
(* record; a transcript list is held by reference, as its index in s.heap,  *)
(* so that an entry of chat_history and qa_messages can be the same list.   *)

\* st.session_state as the variables hold it.
SessionState ==
  [heap |-> heap,
   qa_messages |-> qa_messages, chat_history |-> chat_history,
   current_chat_index |-> current_chat_index,
   doc_messages |-> doc_messages, uploaded_doc_text |-> uploaded_doc_text,
   uploaded_doc_name |-> uploaded_doc_name, doc_chat_history |-> doc_chat_history,
   current_doc_chat_index |-> current_doc_chat_index,
   doc_uploader_key |-> doc_uploader_key]

\* The variables take the values of s.
Store(s) ==
  /\ heap' = s.heap
  /\ qa_messages' = s.qa_messages
  /\ chat_history' = s.chat_history
  /\ current_chat_index' = s.current_chat_index
  /\ doc_messages' = s.doc_messages
  /\ uploaded_doc_text' = s.uploaded_doc_text
  /\ uploaded_doc_name' = s.uploaded_doc_name
  /\ doc_chat_history' = s.doc_chat_history
  /\ current_doc_chat_index' = s.current_doc_chat_index
  /\ doc_uploader_key' = s.doc_uploader_key

\* A new list object with the given turns: the session and the reference.
NewList(s, turns) ==
  [s |-> [s EXCEPT !.heap = Append(@, turns)], ref |-> Len(s.heap) + 1]

QaNameShown == 25

SaveAlways(messages) == TRUE

\* if len(messages) > 1:
SaveWorthy(messages) == Len(messages) > 1

\* messages[1]["content"][:25] + "..." if len(messages) > 1 else f"Chat {n}"
QaDefaultName(messages) ==
  IF Len(messages) > 1
  THEN Take(messages[2].content.v, QaNameShown) \o <<".", ".", ".">>
  ELSE <<"Chat [n]">>

SavePrepend(history, chat_session) == <<chat_session>> \o history

\* chat_history.append(chat_session)
SaveAppend(history, chat_session) == Append(history, chat_session)

\* save_chat(messages, chat_type): messages is the reference of the list.
save_chat(s, messages, chat_type) ==
  IF ~SaveWorthy(s.heap[messages]) THEN s
  ELSE IF chat_type = "qa"
  THEN [s EXCEPT !.chat_history =
          SaveAppend(@, [name |-> Str(QaDefaultName(s.heap[messages])),
                         messages |-> messages])]
  ELSE IF chat_type = "doc"
  THEN [s EXCEPT !.doc_chat_history =
          SaveAppend(@, [name |-> s.uploaded_doc_name, messages |-> messages])]
  ELSE s

new_qa_chat(s) ==
  LET saved == save_chat(s, s.qa_messages, "qa")
      fresh == NewList(saved, <<Turn("assistant", QaGreeting)>>)
  IN [fresh.s EXCEPT !.qa_messages = fresh.ref, !.current_chat_index = -1]

new_doc_chat(s) ==
  LET saved == save_chat(s, s.doc_messages, "doc")
      fresh == NewList(saved, <<Turn("assistant", DocGreeting)>>)
  IN [fresh.s EXCEPT !.doc_uploader_key = @ + 1,
                     !.uploaded_doc_text = Str(<<>>),
                     !.uploaded_doc_name = None,
                     !.doc_messages = fresh.ref,
                     !.current_doc_chat_index = -1]

\* index is the Python index: chat_history[index] is the entry index + 1.
load_qa_chat(s, index) ==
  LET saved == IF s.current_chat_index = -1 /\ Len(s.heap[s.qa_messages]) > 1
               THEN save_chat(s, s.qa_messages, "qa")
               ELSE s
  IN [saved EXCEPT !.qa_messages = saved.chat_history[index + 1].messages,
                   !.current_chat_index = index]

load_doc_chat(s, index) ==
  LET saved == IF /\ s.current_doc_chat_index = -1
                  /\ Len(s.heap[s.doc_messages]) > 1
                  /\ Truthy(s.uploaded_doc_name)
               THEN save_chat(s, s.doc_messages, "doc")
               ELSE s
      chat_session == saved.doc_chat_history[index + 1]
  IN [saved EXCEPT !.doc_messages = chat_session.messages,
                   !.uploaded_doc_text =
                      Get(saved.heap[chat_session.messages][1], "content"),
                   !.uploaded_doc_name = chat_session.name,
                   !.current_doc_chat_index = index]

---------------------------------------------------------------------------
(* SpecConvert: convert_history_for_gemini on every bounded history *)

InitConvert ==
  /\ fn = "convert_history_for_gemini"
  /\ args \in [st_history : SeqUpTo(ConvMsgs, MaxHistory)]
  /\ ret = None
  /\ files = {}
  /\ SessionIdle

CallConvert ==
  /\ fn = "convert_history_for_gemini" /\ ret = None
  /\ ret' = List(convert_history_for_gemini(args.st_history))
  /\ UNCHANGED <<fn, args, files, sessionVars>>

SpecConvert == InitConvert /\ [][CallConvert]_vars

(* SpecStream: stream_gemini_response on every bounded response stream *)

InitStream ==
  /\ fn = "stream_gemini_response"
  /\ args \in [client : {None, Str("client")}, user_prompt : {<<"q">>},
                history : StreamHistories, api : StreamApis]
  /\ ret = None
  /\ files = {}
  /\ SessionIdle

CallStream ==
  /\ fn = "stream_gemini_response" /\ ret = None
  /\ ret' = stream_gemini_response(args.client, args.user_prompt,
                                   args.history, args.api)
  /\ UNCHANGED <<fn, args, files, sessionVars>>

SpecStream == InitStream /\ [][CallStream]_vars

(* SpecExtract: the two document extractors on every bounded file *)

InitExtract ==
  /\ \/ fn = "extract_text_from_pdf" /\ args \in [file : PdfFiles]
     \/ fn = "extract_text_from_docx" /\ args \in [file : DocxFiles]
  /\ ret = None
  /\ files = {}
  /\ SessionIdle

CallExtractPdf ==
  /\ fn = "extract_text_from_pdf" /\ ret = None
  /\ ret' = extract_text_from_pdf(args.file)
  /\ UNCHANGED <<fn, args, files, sessionVars>>

CallExtractDocx ==
  /\ fn = "extract_text_from_docx" /\ ret = None
  /\ ret' = extract_text_from_docx(args.file)
  /\ UNCHANGED <<fn, args, files, sessionVars>>

SpecExtract == InitExtract /\ [][CallExtractPdf \/ CallExtractDocx]_vars

(* SpecEda: runs of generate_eda_report, one after another, on one disk *)

InitEda ==
  /\ fn = "generate_eda_report"
  /\ args = None
  /\ ret = None
  /\ files = {}
  /\ SessionIdle

CallEdaReport(filename, clicked, fault) ==
  /\ fn = "generate_eda_report"
  /\ files' = generate_eda_report(files, filename, clicked, fault)
  /\ args' = [filename |-> filename, clicked |-> clicked, fault |-> fault]
  /\ ret' = [report_path |-> ReportPath(filename),
             written |-> EdaWritten(clicked, fault)]
  /\ UNCHANGED <<fn, sessionVars>>

NextEda ==
  \E filename \in EdaFilenames, clicked \in BOOLEAN, fault \in EdaFaults :
     CallEdaReport(filename, clicked, fault)

SpecEda == InitEda /\ [][NextEda]_vars

---------------------------------------------------------------------------
(* Spec: the programs run by a user, one script run (or call) per step *)

MaxRuns == 3

GenaiClient == [t |-> "client"]
\* get_gemini_client(): the client, or None when genai.Client raises.
Clients == {None, GenaiClient}

\* What the model does on a request: the call raises, the stream is empty,
\* the stream raises after a fragment, the stream gives "a" and then "b".
ChatApis ==
  { [request |-> "raise"],
    [request |-> "ok", stream |-> <<>>],
    [request |-> "ok",
     stream |-> <<Event(List(<<Candidate(List(<<Part(Str(<<"a">>))>>))>>)), Raise>>],
    [request |-> "ok",
     stream |-> <<Event(List(<<Candidate(List(<<Part(Str(<<"a">>))>>))>>)),
                  Event(List(<<Candidate(List(<<Part(Str(<<"b">>))>>))>>))>>] }

\* The data section is run with the first and the last of them.
DataApis ==
  { [request |-> "raise"],
    [request |-> "ok",
     stream |-> <<Event(List(<<Candidate(List(<<Part(Str(<<"a">>))>>))>>)),
                  Event(List(<<Candidate(List(<<Part(Str(<<"b">>))>>))>>))>>] }

AskPrompts == {<<>>, <<" ">>, <<"q">>}
\* What st.chat_input gives: None (nothing submitted) or the text.
QaPrompts ==
  {None, Str(<<>>), Str(<<" ">>), Str(<<" ", "H", "i", "\n">>), Str(<<"q">>)}
DocPrompts == {None, Str(<<" ", "\t">>), Str(<<"q">>)}
DataPrompts ==
  { None, Str(<<" ">>), Str(<<"q">>),
    Str(<<"H", "i", "g", "h", "e", "s", "t", " ", "S", "a", "l", "e", "?">>),
    Str(<<"p", "a", "y", "m", "e", "n", "t", " ", "m", "o", "d", "e", " ",
          "t", "o", "t", "a", "l", " ", "r", "e", "t", "u", "r", "n">>) }
\* The keys of query_mapping whose function raises on the dataset: none,
\* "total return" (the third), "payment mode" (the seventh).
DataEvaluations == {{}, {3}, {7}}
StudioTexts == {<<>>, <<" ", "\n">>, <<"d">>, <<" ", "d", " ">>}

\* The files a user can put in the document uploader.
DocUploads ==
  { [name |-> <<"a", ".", "p", "d", "f">>, type |-> PdfMime,
     file |-> [reader |-> "ok", pages |-> <<Str(<<"a">>), None>>]],
    [name |-> <<"b", ".", "p", "d", "f">>, type |-> PdfMime,
     file |-> [reader |-> "raise"]],
    [name |-> <<"c", ".", "d", "o", "c", "x">>, type |-> DocxMime,
     file |-> [reader |-> "ok", paragraphs |-> <<<<"c">>, <<"d">>>>]],
    [name |-> <<"e", ".", "p", "d", "f">>, type |-> "application/octet-stream",
     file |-> [reader |-> "ok", pages |-> <<Str(<<"e">>)>>]] }

\* The files a user can put in the data uploader.
DataUploads ==
  { [name |-> <<"d", ".", "c", "s", "v">>,
     read_csv |-> "ok", read_excel |-> "raise", decode |-> "ok"],
    [name |-> <<"e", ".", "x", "l", "s", "x">>,
     read_csv |-> "raise", read_excel |-> "raise", decode |-> "raise"],
    [name |-> <<"n", ".", "t", "x", "t">>,
     read_csv |-> "raise", read_excel |-> "raise", decode |-> "ok"] }

Interaction(op, prompt, before, r) ==
  [op |-> op, prompt |-> prompt, before |-> before, after |-> r.messages,
   response |-> r.response, requests |-> r.requests, calls |-> r.calls,
   raised |-> FALSE]

\* The interaction with the client that get_gemini_client gave to the run
\* in which a prompt was submitted.
WithClient(interaction, client) ==
  interaction @@ [client |-> IF interaction.prompt = None THEN Absent ELSE client]

Init ==
  /\ fn = "none" /\ args = None /\ ret = None
  /\ files = {}
  /\ entry \in {"chat_handler", "app", "writing_studio"}
  /\ InitSession

\* A caller of chat_handler calls ask_gemini(client, prompt, chat_history).
AskGemini(client, prompt, api) ==
  /\ entry = "chat_handler" /\ nruns < MaxRuns
  /\ LET r == ask_gemini(client, prompt, ask_history, api)
     IN /\ ask_history' = r.messages
        /\ last' = WithClient(Interaction("ask_gemini", Str(prompt), ask_history, r),
                               client)
  /\ nruns' = nruns + 1
  /\ UNCHANGED <<callVars, files, entry, heap, qaVars, docVars, dataVars, studioVars>>

\* A run of main in the Q/A section with prompt submitted in the chat input:
\* display_qa_chat(st.session_state["qa_messages"], client).
QaStep(prompt, client, api) ==
  /\ LET r == display_qa_chat(heap[qa_messages], prompt, client, api)
     IN /\ heap' = [heap EXCEPT ![qa_messages] = r.messages]
        /\ last' = WithClient(Interaction("display_qa_chat", prompt,
                                           heap[qa_messages], r), client)
  /\ UNCHANGED <<callVars, files, entry, ask_history, qaVars, docVars, dataVars,
                 studioVars>>

QaRun(prompt, client, api) ==
  /\ entry = "app" /\ nruns < MaxRuns
  /\ QaStep(prompt, client, api)
  /\ nruns' = nruns + 1

\* What a run of the sidebar did: the callback or button and its index.
SidebarInteraction(op, index) ==
  [NoInteraction EXCEPT !.op = op] @@ [index |-> index]

\* The user clicks "New Chat": new_qa_chat() runs as the on_click callback,
\* then main runs display_qa_chat with nothing submitted.
NewQaChatStep(client) ==
  /\ LET s == new_qa_chat(SessionState)
         r == display_qa_chat(s.heap[s.qa_messages], None, client, [request |-> "raise"])
     IN Store([s EXCEPT !.heap[s.qa_messages] = r.messages])
  /\ last' = SidebarInteraction("new_qa_chat", -1)
  /\ UNCHANGED <<callVars, files, entry, ask_history, doc_file, dataVars, studioVars>>

\* The user clicks the button of chat_history[index]: main calls
\* load_qa_chat(index) and then display_qa_chat with nothing submitted.
LoadQaChatStep(index, client) ==
  /\ index \in 0..(Len(chat_history) - 1)
  /\ LET s == load_qa_chat(SessionState, index)
         r == display_qa_chat(s.heap[s.qa_messages], None, client, [request |-> "raise"])
     IN Store([s EXCEPT !.heap[s.qa_messages] = r.messages])
  /\ last' = SidebarInteraction("load_qa_chat", index)
  /\ UNCHANGED <<callVars, files, entry, ask_history, doc_file, dataVars, studioVars>>

\* display_doc_chat(client) on the session s, with file in the uploader and
\* widget_prompt submitted in the chat input: the session it leaves, the
\* prompt the chat input gave, the transcript before the chat and its result.
display_doc_chat(s, file, widget_prompt, client, api) ==
  LET new_upload == DocIsNewUpload(file, s.uploaded_doc_name)
      fresh == NewList(s, <<Turn("assistant", DocUploadedMessage(file.name))>>)
      s1 == IF new_upload
            THEN [fresh.s EXCEPT
                    !.uploaded_doc_text = DocExtract(file, s.uploaded_doc_text),
                    !.uploaded_doc_name = Str(file.name),
                    !.doc_messages = fresh.ref,
                    !.current_doc_chat_index = -1]
            ELSE s
      \* the chat input is rendered only under `if uploaded_doc_text:`
      user_prompt == IF Truthy(s1.uploaded_doc_text) THEN widget_prompt ELSE None
      before == s1.heap[s1.doc_messages]
      r == DocChat(before, s1.uploaded_doc_text.v, user_prompt, client, api)
  IN [s |-> [s1 EXCEPT !.heap[s1.doc_messages] = r.messages],
      prompt |-> user_prompt, before |-> before, r |-> r]

\* A run of main in the Document Q/A section, display_doc_chat(client), with
\* file in the uploader and widget_prompt submitted in the chat input.
DocRun(file, widget_prompt, client, api) ==
  /\ LET d == display_doc_chat(SessionState, file, widget_prompt, client, api)
     IN /\ Store(d.s)
        /\ last' = WithClient(Interaction("display_doc_chat", d.prompt, d.before,
                                           d.r), client)
  /\ doc_file' = file
  /\ UNCHANGED <<callVars, files, entry, ask_history, dataVars, studioVars>>

\* The user puts a file in the document uploader, or removes it.
DocUploadStep(file, client) ==
  /\ file # doc_file
  /\ DocRun(file, None, client, [request |-> "raise"])

DocUpload(file, client) ==
  /\ entry = "app" /\ nruns < MaxRuns
  /\ DocUploadStep(file, client)
  /\ nruns' = nruns + 1

\* The user submits a prompt in the chat input of the document section.
DocPromptStep(prompt, client, api) ==
  /\ Truthy(uploaded_doc_text)   \* the last run rendered the chat input
  /\ DocRun(doc_file, prompt, client, api)

DocPrompt(prompt, client, api) ==
  /\ entry = "app" /\ nruns < MaxRuns
  /\ DocPromptStep(prompt, client, api)
  /\ nruns' = nruns + 1

\* The user clicks "New Document Chat": new_doc_chat() runs as the on_click
\* callback and changes the key of the uploader, so that main runs
\* display_doc_chat with a new, empty uploader.
NewDocChatStep(client) ==
  /\ LET s == new_doc_chat(SessionState)
         d == display_doc_chat(s, None, None, client, [request |-> "raise"])
     IN Store(d.s)
  /\ doc_file' = None
  /\ last' = SidebarInteraction("new_doc_chat", -1)
  /\ UNCHANGED <<callVars, files, entry, ask_history, dataVars, studioVars>>

\* The user clicks the button of doc_chat_history[index]: main calls
\* load_doc_chat(index) and then display_doc_chat(client), the uploader
\* holding what it held.
LoadDocChatStep(index, client) ==
  /\ index \in 0..(Len(doc_chat_history) - 1)
  /\ LET s == load_doc_chat(SessionState, index)
         d == display_doc_chat(s, doc_file, None, client, [request |-> "raise"])
     IN Store(d.s)
  /\ last' = SidebarInteraction("load_doc_chat", index)
  /\ UNCHANGED <<callVars, files, entry, ask_history, doc_file, dataVars, studioVars>>

\* A run of main in the Data Analysis section: the setdefault of "df", then
\* display_data_analysis() with file in the uploader, widget_prompt submitted
\* in the chat input and the report button clicked or not.
DataRun(file, widget_prompt, evaluation, client, api1, api2, clicked, fault) ==
  LET df0 == IF df = Absent THEN None ELSE df
      reload == file # None /\ (df0 = Absent \/ uploaded_file_name # Str(file.name))
      loaded == load_data(file)
      df1 == IF reload
             THEN (IF IsRaise(loaded) THEN DataLoadFailed(df0) ELSE loaded)
             ELSE df0
      name == IF reload /\ ~IsRaise(loaded) THEN Str(file.name) ELSE uploaded_file_name
      messages == IF reload /\ ~IsRaise(loaded)
                  THEN DataLoadedMessages(file.name) ELSE data_analysis_messages
      shown == file # None /\ df1 # Absent
      \* df.select_dtypes on None raises AttributeError and ends the run
      raised == shown /\ df1 = None
      panels == shown /\ ~raised
      prompt == IF panels THEN widget_prompt ELSE None
      r == DataChat(messages, df1, prompt, evaluation, client, api1, api2)
  IN /\ df' = df1
     /\ uploaded_file_name' = name
     /\ data_analysis_messages' = r.messages
     /\ files' = IF panels /\ name # None
                 THEN generate_eda_report(files, name.v, clicked, fault)
                 ELSE files
     /\ last' = WithClient([Interaction("display_data_analysis", prompt, messages, r)
                              EXCEPT !.raised = raised], client)
                @@ [load |-> IF ~reload THEN "none"
                             ELSE IF IsRaise(loaded) THEN "failed" ELSE "ok",
                    name_before |-> uploaded_file_name,
                    messages_before |-> data_analysis_messages,
                    panels |-> panels,
                    evaluation |-> evaluation]
     /\ data_file' = file

\* Whether the last run of the section rendered the panels and the chat input.
DataPanelsRendered == data_file # None /\ df \notin {Absent, None}

\* The user puts a file in the data uploader, or removes it.
DataUpload(file, client) ==
  /\ entry = "app" /\ nruns < MaxRuns
  /\ file # data_file
  /\ DataRun(file, None, {}, client, [request |-> "raise"], [request |-> "raise"],
             FALSE, "none")
  /\ nruns' = nruns + 1
  /\ UNCHANGED <<callVars, entry, ask_history, heap, qaVars, docVars, studioVars>>

\* The user submits a prompt in the chat input of the data section.
DataPrompt(prompt, evaluation, client, api1, api2) ==
  /\ entry = "app" /\ nruns < MaxRuns
  /\ DataPanelsRendered
  /\ DataRun(data_file, prompt, evaluation, client, api1, api2, FALSE, "none")
  /\ nruns' = nruns + 1
  /\ UNCHANGED <<callVars, entry, ask_history, heap, qaVars, docVars, studioVars>>

\* The user clicks "Generate & Download EDA Report".
DataClickReport(client, fault) ==
  /\ entry = "app" /\ nruns < MaxRuns
  /\ DataPanelsRendered
  /\ DataRun(data_file, None, {}, client, [request |-> "raise"],
             [request |-> "raise"], TRUE, fault)
  /\ nruns' = nruns + 1
  /\ UNCHANGED <<callVars, entry, ask_history, heap, qaVars, docVars, studioVars>>

\* A run of display_writing_studio(client) with text in the text area and
\* the Run button clicked or not.
StudioRun(text, clicked) ==
  /\ entry = "writing_studio" /\ nruns < MaxRuns
  /\ LET messages == IF studio_messages = Absent
                     THEN <<Turn("assistant", StudioGreeting)>>
                     ELSE studio_messages.v
         after == display_writing_studio(messages, text, clicked)
     IN /\ studio_messages' = List(after)
        /\ last' = [op |-> "display_writing_studio",
                    prompt |-> IF clicked THEN Str(text) ELSE None,
                    before |-> messages, after |-> after,
                    response |-> None, requests |-> <<>>, calls |-> 0,
                    raised |-> FALSE]
  /\ input_text' = Str(text)
  /\ nruns' = nruns + 1
  /\ UNCHANGED <<callVars, files, entry, ask_history, heap, qaVars, docVars, dataVars>>

Next ==
  \/ \E client \in Clients, prompt \in AskPrompts, api \in ChatApis :
        AskGemini(client, prompt, api)
  \/ \E prompt \in QaPrompts, client \in Clients, api \in ChatApis :
        QaRun(prompt, client, api)
  \/ \E file \in DocUploads \cup {None}, client \in Clients : DocUpload(file, client)
  \/ \E prompt \in DocPrompts, client \in Clients, api \in ChatApis :
        DocPrompt(prompt, client, api)
  \/ \E file \in DataUploads \cup {None}, client \in Clients : DataUpload(file, client)
  \/ \E prompt \in DataPrompts, evaluation \in DataEvaluations, client \in Clients,
        api1 \in DataApis, api2 \in DataApis :
        DataPrompt(prompt, evaluation, client, api1, api2)
  \/ \E client \in Clients, fault \in EdaFaults : DataClickReport(client, fault)
  \/ \E text \in StudioTexts, clicked \in BOOLEAN : StudioRun(text, clicked)

Spec == Init /\ [][Next]_vars

---------------------------------------------------------------------------
(* SpecChats: the Q/A and Document Q/A sections of the app with their       *)
(* sidebars, for longer sessions than Spec and with fewer model behaviours: *)
(* the client exists, the model fails or answers "ab".                      *)

MaxClicks == 5

ChatsPrompts == {Str(<<"q">>)}

InitChats ==
  /\ fn = "none" /\ args = None /\ ret = None
  /\ files = {}
  /\ entry = "app"
  /\ InitSession

\* One run of main, the user having done what step says.
ChatsRun(step) ==
  /\ entry = "app" /\ nruns < MaxClicks
  /\ step
  /\ nruns' = nruns + 1

NextChats ==
  \/ \E prompt \in ChatsPrompts, api \in DataApis :
        ChatsRun(QaStep(prompt, GenaiClient, api))
  \/ ChatsRun(NewQaChatStep(GenaiClient))
  \/ \E index \in 0..(MaxClicks - 1) : ChatsRun(LoadQaChatStep(index, GenaiClient))
  \/ \E file \in DocUploads \cup {None} : ChatsRun(DocUploadStep(file, GenaiClient))
  \/ \E prompt \in ChatsPrompts, api \in DataApis :
        ChatsRun(DocPromptStep(prompt, GenaiClient, api))
  \/ ChatsRun(NewDocChatStep(GenaiClient))
  \/ \E index \in 0..(MaxClicks - 1) : ChatsRun(LoadDocChatStep(index, GenaiClient))

SpecChats == InitChats /\ [][NextChats]_vars

---------------------------------------------------------------------------
(* Properties *)

\* The list that the entry point of the last interaction works on, as the
\* state holds it now.
Transcript ==
  CASE last.op = "ask_gemini" -> ask_history
    [] last.op = "display_qa_chat" -> heap[qa_messages]
    [] last.op = "display_doc_chat" -> heap[doc_messages]
    [] last.op = "display_data_analysis" -> data_analysis_messages
    [] last.op = "display_writing_studio" -> studio_messages.v
    [] OTHER -> <<>>

\* C1: a transcript is append-only.  After ask_gemini and after a run of
\* display_qa_chat (a prompt answered by the model, a greeting answered
\* directly, a model call that fails or returns nothing) the transcript as it
\* was before the interaction is a prefix of the transcript.
C1_AppendOnly ==
  last.op \in {"ask_gemini", "display_qa_chat"} =>
     /\ IsPrefix(last.before, Transcript)
     /\ Transcript = last.after

\* A Q/A prompt on a transcript that already holds an earlier exchange, with
\* a model call that was made and gave nothing: only the user turn is added.
C1_Witness ==
  /\ last.op = "display_qa_chat"
  /\ Len(last.before) >= 2
  /\ Len(last.requests) = 1
  /\ ~Truthy(last.response)
  /\ Len(Transcript) = Len(last.before) + 1

\* C2: an empty or whitespace-only input produces no transcript mutation,
\* for ask_gemini, the chat inputs of display_qa_chat and display_doc_chat and
\* the Run button of display_writing_studio.
C2_BlankInputNoMutation ==
  ( /\ last.op \in {"ask_gemini", "display_qa_chat", "display_doc_chat",
                    "display_writing_studio"}
    /\ last.prompt # None
    /\ Strip(last.prompt.v) = <<>> )
  => Transcript = last.before

\* C3: every user interaction causes at most one outbound request to the
\* model, in the Q/A chat, the document chat and the data-analysis chat.
C3_AtMostOneRequest ==
  last.op \in {"display_qa_chat", "display_doc_chat", "display_data_analysis"}
  => Len(last.requests) <= 1

\* Whether the last interaction passed its prompt to stream_gemini_response:
\* ask_gemini always does, display_qa_chat and display_doc_chat for a prompt
\* that is truthy, display_qa_chat unless the prompt is a greeting.
ModelAsked ==
  /\ last.op \in {"ask_gemini", "display_qa_chat", "display_doc_chat"}
  /\ last.prompt # None
  /\ last.op # "ask_gemini" => Len(last.prompt.v) > 0
  /\ last.op = "display_qa_chat" => Lower(Strip(last.prompt.v)) \notin Greetings

\* C8: after ask_gemini or a prompt submitted in display_qa_chat or
\* display_doc_chat, the transcript has grown by exactly the user turn when
\* the model call failed or returned nothing, and by the user turn followed
\* by one assistant turn holding the response when the response is non-empty.
C8_AssistantTurnOnlyForResponse ==
  ModelAsked =>
     Transcript = last.before \o <<Turn("user", last.prompt.v)>>
                    \o (IF last.response # None /\ last.response.v # <<>>
                        THEN <<Turn("assistant", last.response.v)>>
                        ELSE <<>>)

\* A document prompt whose request was sent and gave nothing.
C8_Witness ==
  /\ last.op = "display_doc_chat"
  /\ ModelAsked
  /\ Len(last.requests) = 1
  /\ last.response = Str(<<>>)
  /\ Len(Transcript) = Len(last.before) + 1

\* The text fragments of a response stream in arrival order: event by event,
\* candidate by candidate, part by part; a part without text gives "".
CandidatesOf(event) ==
  IF "candidates" \in DOMAIN event /\ event.candidates.t = "list"
  THEN event.candidates.v ELSE <<>>
PartsOf(candidate) ==
  IF "parts" \in DOMAIN candidate.content /\ candidate.content.parts.t = "list"
  THEN candidate.content.parts.v ELSE <<>>
TextOf(part) == IF part.text.t = "str" THEN part.text.v ELSE <<>>
FragmentsOfCandidate(candidate) ==
  [k \in 1..Len(PartsOf(candidate)) |-> TextOf(PartsOf(candidate)[k])]
FragmentsOfEvent(event) ==
  Flatten([j \in 1..Len(CandidatesOf(event)) |->
             FragmentsOfCandidate(CandidatesOf(event)[j])])
FragmentsOf(stream) ==
  Flatten([i \in 1..Len(stream) |-> FragmentsOfEvent(stream[i])])

\* Whether making the request or consuming the stream raises: the call
\* raises, the iterator raises, or a candidates or parts attribute is None.
EventFails(event) ==
  \/ IsRaise(event)
  \/ "candidates" \in DOMAIN event /\ event.candidates = None
  \/ \E j \in 1..Len(CandidatesOf(event)) :
        LET content == CandidatesOf(event)[j].content
        IN "parts" \in DOMAIN content /\ content.parts = None
StreamFails(api) ==
  \/ api.request = "raise"
  \/ api.request = "ok" /\ \E i \in 1..Len(api.stream) : EventFails(api.stream[i])

StreamCalled == fn = "stream_gemini_response" /\ ret # None /\ args.client # None

\* C4: stream_gemini_response concatenates the text fragments of the stream
\* in arrival order with no separator: for a stream consumed to its end, the
\* result is the concatenation of the fragments, those without text adding
\* nothing.
C4_ConcatenatesInOrder ==
  (StreamCalled /\ ~StreamFails(args.api))
  => ret.ret = Str(Flatten(FragmentsOf(args.api.stream)))

\* A stream of three events with an event of two candidates, a part without
\* text and at least four non-empty fragments, both "a" and "b" among them.
C4_Witness ==
  /\ StreamCalled /\ ~StreamFails(args.api)
  /\ Len(args.api.stream) = 3
  /\ \E i \in 1..3 : Len(CandidatesOf(args.api.stream[i])) = 2
  /\ <<>> \in {FragmentsOf(args.api.stream)[k] :
                 k \in 1..Len(FragmentsOf(args.api.stream))}
  /\ Len(ret.ret.v) >= 4
  /\ {"a", "b"} \subseteq {ret.ret.v[k] : k \in 1..Len(ret.ret.v)}

\* C5: if the request or the consumption of the stream raises,
\* stream_gemini_response returns the empty string (no exception reaches the
\* caller, the fragments accumulated are dropped) and leaves history as it was.
C5_ExceptionGivesEmpty ==
  (StreamCalled /\ StreamFails(args.api))
  => /\ ret.ret = Str(<<>>)
     /\ ret.history = args.history

\* A stream that raises after an event that carried text, on a history that
\* is not empty.
C5_Witness ==
  /\ StreamCalled
  /\ args.api.request = "ok"
  /\ Len(args.api.stream) >= 2
  /\ ~EventFails(args.api.stream[1])
  /\ Flatten(FragmentsOfEvent(args.api.stream[1])) # <<>>
  /\ IsRaise(args.api.stream[2])
  /\ args.history # <<>>
  /\ ret.ret = Str(<<>>)

\* Whether a turn has a text: a content key whose value is a non-empty str.
HasText(msg) ==
  "content" \in DOMAIN msg /\ msg.content.t = "str" /\ msg.content.v # <<>>

ConvertCalled == fn = "convert_history_for_gemini" /\ ret # None

\* C6: convert_history_for_gemini gives the request role user to a turn
\* whose role is "user" and the request role model to a turn with any other
\* role or with none.
C6_RoleMapping ==
  ConvertCalled =>
     LET kept == SelectSeq(args.st_history, HasText)
     IN /\ Len(ret.v) = Len(kept)
        /\ \A j \in 1..Len(kept) :
              ret.v[j].role = IF "role" \in DOMAIN kept[j] /\ kept[j].role = Str("user")
                              THEN "user" ELSE "model"

\* A history whose kept turns have the role "user", a role that is neither
\* "user" nor "assistant", and no role.
C6_Witness ==
  /\ ConvertCalled
  /\ Len(ret.v) = 3
  /\ \E i, j, k \in 1..3 :
        /\ Get(args.st_history[i], "role") = Str("user") /\ ret.v[i].role = "user"
        /\ Get(args.st_history[j], "role") = Str("system") /\ ret.v[j].role = "model"
        /\ "role" \notin DOMAIN args.st_history[k] /\ ret.v[k].role = "model"

\* C7: convert_history_for_gemini drops exactly the turns whose text is
\* empty, None or missing and keeps the others in order with their text: the
\* output is as long as the number of turns with a text, and its j-th entry
\* holds the text of the j-th such turn.
C7_DropsEmptyTurns ==
  ConvertCalled =>
     LET kept == SelectSeq(args.st_history, HasText)
     IN /\ ret.t = "list"
        /\ Len(ret.v) = Cardinality({i \in 1..Len(args.st_history) :
                                       HasText(args.st_history[i])})
        /\ Len(ret.v) = Len(kept)
        /\ \A j \in 1..Len(kept) :
              ret.v[j].parts = <<[text |-> kept[j].content.v]>>

\* A history of three turns of which the middle one has None for text and
\* the other two have different texts.
C7_Witness ==
  /\ ConvertCalled
  /\ Len(args.st_history) = 3
  /\ "content" \in DOMAIN args.st_history[2] /\ args.st_history[2].content = None
  /\ Len(ret.v) = 2
  /\ ret.v[1].parts[1].text = <<"b">>
  /\ ret.v[2].parts[1].text = <<"a">>

\* The text of a page: what extract_text() gave, "" when it gave None.
PageText(extracted) == IF extracted.t = "str" THEN extracted.v ELSE <<>>
PdfFails(file) ==
  \/ file.reader = "raise"
  \/ file.reader = "ok" /\ \E i \in 1..Len(file.pages) : IsRaise(file.pages[i])

\* C9: extract_text_from_pdf and extract_text_from_docx never raise.  When
\* the parser fails or a page raises midway the result is the empty string,
\* and otherwise a PDF gives the texts of its pages, a page without text
\* adding the empty string.
C9_ExtractNeverRaises ==
  ( /\ fn \in {"extract_text_from_pdf", "extract_text_from_docx"}
    /\ ret # None )
  => /\ ret.t = "str"
     /\ fn = "extract_text_from_pdf" =>
           ret = IF PdfFails(args.file) THEN Str(<<>>)
                 ELSE Str(Flatten([i \in 1..Len(args.file.pages) |->
                                     PageText(args.file.pages[i])]))
     /\ (fn = "extract_text_from_docx" /\ args.file.reader = "raise") =>
           ret = Str(<<>>)

\* A PDF whose first page gives text and whose second page raises.
C9_Witness ==
  /\ fn = "extract_text_from_pdf" /\ ret # None
  /\ args.file.reader = "ok"
  /\ Len(args.file.pages) >= 2
  /\ args.file.pages[1] = Str(<<"a">>)
  /\ IsRaise(args.file.pages[2])
  /\ ret = Str(<<>>)

\* C10: once generate_eda_report has written the report file, the file no
\* longer exists when generate_eda_report returns.
C10_ReportDeleted ==
  (fn = "generate_eda_report" /\ ret # None /\ ret.written)
  => ret.report_path \notin files

\* C11: a Q/A transcript loaded from chat_history is not saved to
\* chat_history a second time: after any sequence of prompts, new-chat and
\* load-chat operations no two entries of chat_history hold the same
\* transcript list.
C11_NoTranscriptSavedTwice ==
  \A i, j \in 1..Len(chat_history) :
     i # j => chat_history[i].messages # chat_history[j].messages

\* C12: loading a saved document chat makes it the active one.  At the end
\* of the run in which load_doc_chat(index) is called, doc_messages is the
\* transcript stored in doc_chat_history[index], uploaded_doc_name is its
\* stored name and current_doc_chat_index is index, whatever file the
\* uploader holds.
C12_LoadedDocChatIsActive ==
  last.op = "load_doc_chat" =>
     /\ doc_messages = doc_chat_history[last.index + 1].messages
     /\ uploaded_doc_name = doc_chat_history[last.index + 1].name
     /\ current_doc_chat_index = last.index

\* C13: in the data-analysis section, after any sequence of uploads and
\* reruns, uploaded_file_name equal to the name of the file in the uploader
\* implies that df is a DataFrame (not None, not missing) loaded from that
\* file.
C13_NameImpliesLoadedFrame ==
  (data_file # None /\ uploaded_file_name = Str(data_file.name))
  => (df.t = "df" /\ df.source = data_file.name)

\* The request role and text of a turn of a transcript.
RequestEntryOf(turn) ==
  [role |-> IF turn.role = Str("user") THEN "user" ELSE "model",
   parts |-> <<[text |-> turn.content.v]>>]

\* C14: the request sent for a non-empty prompt by ask_gemini or by
\* display_qa_chat is the translated transcript as it was before the
\* interaction, followed by two consecutive user-role entries that both carry
\* the prompt text: the user turn the caller appended to the transcript, and
\* the entry stream_gemini_response adds as the last element.
C14_PromptSentTwice ==
  ( /\ last.op \in {"ask_gemini", "display_qa_chat"}
    /\ Len(last.requests) > 0
    /\ last.prompt.v # <<>> )
  => LET request == last.requests[1]
         earlier == SelectSeq(last.before, HasText)
         n == Len(request)
     IN /\ n = Len(earlier) + 2
        /\ \A i \in 1..Len(earlier) : request[i] = RequestEntryOf(earlier[i])
        /\ request[n - 1] = [role |-> "user", parts |-> <<[text |-> last.prompt.v]>>]
        /\ request[n] = [role |-> "user", parts |-> <<[text |-> last.prompt.v]>>]

\* A Q/A prompt sent on a transcript that holds the greeting and an earlier
\* exchange: the request has five entries, the third of role model.
C14_Witness ==
  /\ last.op = "display_qa_chat"
  /\ Len(last.requests) = 1
  /\ Len(last.before) = 3
  /\ Len(last.requests[1]) = 5
  /\ last.requests[1][3].role = "model"
  /\ last.requests[1][4] = last.requests[1][5]

\* The text of an uploaded document: the texts of the pages of a PDF, the
\* paragraphs of a DOCX joined by newlines, "" when the parser fails.
JoinedParagraphs(paragraphs) ==
  Flatten([i \in 1..Len(paragraphs) |->
             IF i = 1 THEN paragraphs[i] ELSE <<"\n">> \o paragraphs[i]])
DocumentText(file) ==
  IF file.file.reader = "raise" THEN <<>>
  ELSE IF "pages" \in DOMAIN file.file
  THEN (IF PdfFails(file.file) THEN <<>>
        ELSE Flatten([i \in 1..Len(file.file.pages) |-> PageText(file.file.pages[i])]))
  ELSE JoinedParagraphs(file.file.paragraphs)

\* C15: document state is replaced on a new upload.  In a run of
\* display_doc_chat that sees a file whose name differs from
\* uploaded_doc_name, uploaded_doc_text becomes the text extracted from that
\* file, uploaded_doc_name its name, doc_messages a list of exactly one
\* assistant turn and current_doc_chat_index -1, and doc_chat_history is
\* unchanged; when the name equals uploaded_doc_name none of these changes.
C15_UploadReplacesDocState ==
  [][ (last'.op = "display_doc_chat" /\ doc_file' # None) =>
        IF Str(doc_file'.name) # uploaded_doc_name
        THEN /\ uploaded_doc_text' = Str(DocumentText(doc_file'))
             /\ uploaded_doc_name' = Str(doc_file'.name)
             /\ Len(heap'[doc_messages']) = 1
             /\ heap'[doc_messages'][1].role = Str("assistant")
             /\ current_doc_chat_index' = -1
             /\ doc_chat_history' = doc_chat_history
        ELSE UNCHANGED <<uploaded_doc_text, uploaded_doc_name, doc_messages,
                         current_doc_chat_index, doc_chat_history>> ]_vars

\* C16: when reading an uploaded dataset fails, the failure is caught and
\* the session is left without a dataset: the "df" entry is removed,
\* uploaded_file_name and data_analysis_messages keep the values they had
\* before the upload, no panel and no chat input is rendered in that run and
\* no exception leaves display_data_analysis.  When reading succeeds, df,
\* uploaded_file_name and data_analysis_messages (exactly two assistant
\* turns) are replaced together.
C16_FailedReadLeavesNoDataset ==
  last.op = "display_data_analysis" =>
     /\ last.load = "failed" =>
           /\ df = Absent
           /\ uploaded_file_name = last.name_before
           /\ data_analysis_messages = last.messages_before
           /\ ~last.panels
           /\ last.prompt = None
           /\ ~last.raised
     /\ last.load = "ok" =>
           /\ df.t = "df" /\ df.source = data_file.name
           /\ uploaded_file_name = Str(data_file.name)
           /\ Len(last.before) = 2
           /\ \A i \in 1..2 : last.before[i].role = Str("assistant")
           /\ data_analysis_messages = last.after

\* A read that fails after a dataset was loaded and shown.
C16_Witness ==
  /\ last.op = "display_data_analysis"
  /\ last.load = "failed"
  /\ last.name_before # None
  /\ Len(last.messages_before) >= 2
  /\ data_file # None /\ Str(data_file.name) # uploaded_file_name
  /\ df = Absent

\* The position in query_mapping of the first canned phrase that text
\* contains, 0 when it contains none.
PhrasesIn(text) == {i \in 1..Len(QueryMapping) : Contains(QueryMapping[i], text)}
FirstPhraseIn(text) ==
  IF PhrasesIn(text) = {} THEN 0
  ELSE CHOOSE i \in PhrasesIn(text) : \A j \in PhrasesIn(text) : i <= j

\* C17: in the data-analysis chat, when the lower-cased prompt contains one
\* or more canned query phrases, only the first matching phrase in mapping
\* order is evaluated; if evaluating it raises, the assistant turn appended to
\* data_analysis_messages is the inline error message and no request is made
\* to the model for that prompt; a later matching phrase whose evaluation
\* would raise gives no error message.
C17_FirstMatchErrorInline ==
  ( /\ last.op = "display_data_analysis"
    /\ Truthy(last.prompt)
    /\ FirstPhraseIn(Lower(last.prompt.v)) # 0 )
  => IF FirstPhraseIn(Lower(last.prompt.v)) \in last.evaluation
     THEN /\ data_analysis_messages =
               last.before \o << Turn("user", last.prompt.v),
                                 Turn("assistant", DataErrorMessage) >>
          /\ last.requests = <<>>
          /\ last.calls = 0
     ELSE last.response # Str(DataErrorMessage)

\* A prompt that contains two canned phrases, the first of which raises.
C17_Witness ==
  /\ last.op = "display_data_analysis"
  /\ Truthy(last.prompt)
  /\ Cardinality(PhrasesIn(Lower(last.prompt.v))) = 2
  /\ FirstPhraseIn(Lower(last.prompt.v)) \in last.evaluation
  /\ last.response = Str(DataErrorMessage)
  /\ Len(data_analysis_messages) = 4

\* C18: in display_qa_chat a prompt whose text, trimmed and lower-cased, is
\* "hi", "hello" or "hey" is answered directly: the transcript grows by the
\* user turn and one fixed assistant greeting turn, and no request is made to
\* the model; every other non-empty prompt causes one call of
\* stream_gemini_response.
C18_GreetingAnsweredDirectly ==
  (last.op = "display_qa_chat" /\ Truthy(last.prompt))
  => IF Lower(Strip(last.prompt.v)) \in {<<"h", "i">>, <<"h", "e", "l", "l", "o">>,
                                         <<"h", "e", "y">>}
     THEN /\ Transcript = last.before \o << Turn("user", last.prompt.v),
                                            Turn("assistant", QaGreetingResponse) >>
          /\ last.requests = <<>>
          /\ last.calls = 0
     ELSE last.calls = 1

\* The prompt " Hi\n" answered directly.
C18_Witness ==
  /\ last.op = "display_qa_chat"
  /\ last.prompt = Str(<<" ", "H", "i", "\n">>)
  /\ last.calls = 0
  /\ Len(Transcript) = Len(last.before) + 2

\* C19: in every state reachable by new_qa_chat, load_qa_chat, new_doc_chat,
\* load_doc_chat, uploads and chat prompts, current_chat_index is -1 or a
\* valid index of chat_history and current_doc_chat_index is -1 or a valid
\* index of doc_chat_history; chat_history and doc_chat_history never shrink
\* and an entry's position never changes.
C19_IndexesValidHistoriesGrow ==
  /\ [](/\ current_chat_index \in -1..(Len(chat_history) - 1)
        /\ current_doc_chat_index \in -1..(Len(doc_chat_history) - 1))
  /\ [][/\ IsPrefix(chat_history, chat_history')
        /\ IsPrefix(doc_chat_history, doc_chat_history')]_vars

\* A load of the first of two saved Q/A chats, the second saved by the load.
C19_Witness ==
  /\ last.op = "load_qa_chat"
  /\ Len(chat_history) = 2
  /\ current_chat_index = 0
  /\ chat_history[1].messages # chat_history[2].messages

\* C20: the Q/A and document transcripts are created with a greeting and
\* never become empty: in every reachable state qa_messages and doc_messages
\* are non-empty and their first turn has role assistant, and every
\* transcript stored in chat_history or doc_chat_history has at least two
\* turns.
C20_TranscriptsNeverEmpty ==
  /\ Len(heap[qa_messages]) >= 1
  /\ heap[qa_messages][1].role = Str("assistant")
  /\ Len(heap[doc_messages]) >= 1
  /\ heap[doc_messages][1].role = Str("assistant")
  /\ \A i \in 1..Len(chat_history) : Len(heap[chat_history[i].messages]) >= 2
  /\ \A i \in 1..Len(doc_chat_history) : Len(heap[doc_chat_history[i].messages]) >= 2

\* A new document chat that saved the chat about an uploaded document and
\* started from the greeting.
C20_Witness ==
  /\ last.op = "new_doc_chat"
  /\ Len(doc_chat_history) = 1
  /\ heap[doc_messages] = <<Turn("assistant", DocGreeting)>>
  /\ Len(heap[doc_chat_history[1].messages]) >= 2

\* Whether the last interaction was a prompt submitted to ask_gemini or to a
\* chat input of the app in a run whose client was None.
PromptWithoutClient ==
  /\ last.op \in {"ask_gemini", "display_qa_chat", "display_doc_chat",
                  "display_data_analysis"}
  /\ last.op # "ask_gemini" => Truthy(last.prompt)
  /\ last.client = None

\* C21 as stated: when get_gemini_client returned None no request is built
\* or sent and nothing is raised, and every chat interaction appends the user
\* turn only.
C21_NoClientUserTurnOnly ==
  PromptWithoutClient =>
     /\ last.requests = <<>>
     /\ ~last.raised
     /\ Transcript = last.before \o <<Turn("user", last.prompt.v)>>

\* C21 as amended: when get_gemini_client returned None, every call of
\* stream_gemini_response returns the empty string without building or
\* sending a request and without raising, so every chat interaction that
\* calls it appends the user turn only.
C21_NoClientNoModelTurn ==
  (PromptWithoutClient /\ last.calls > 0) =>
     /\ last.requests = <<>>
     /\ last.response = Str(<<>>)
     /\ ~last.raised
     /\ Transcript = last.before \o <<Turn("user", last.prompt.v)>>

\* A canned data query evaluated without a client: stream_gemini_response is
\* called for the result and again by the fallback, and only the user turn
\* is appended.
C21_Witness ==
  /\ PromptWithoutClient
  /\ last.op = "display_data_analysis"
  /\ last.calls = 2
  /\ last.requests = <<>>
  /\ Len(data_analysis_messages) = Len(last.before) + 1

====
